---- MODULE Spec2Model ----
(***************************************************************************)
(* State-machine model of the client-side reconciliation core of the       *)
(* react-dashboard repository: error and availability primitives, the      *)
(* profile and settings services, the auth session manager, the settings   *)
(* session manager and the UI-scale layer.                                  *)
(*                                                                         *)
(* Encodings.  An optional value (T | null) is a sequence of length <= 1:  *)
(* None is null/absent, Some(x) is x.  Scales are integers in hundredths   *)
(* (1.25 is 125).  JavaScript null and undefined inside string fields are  *)
(* the strings NULL and UNDEF.  An asynchronous function is a record in    *)
(* `calls` whose pc names the await it is suspended at; one step of the    *)
(* model completes that await and runs the function synchronously to its   *)
(* next await or to its end, together with the continuation of its caller. *)
(***************************************************************************)
EXTENDS Integers, Sequences, FiniteSets, TLC

None == <<>>
Some(x) == <<x>>
IsSome(o) == Len(o) = 1
Get(o) == o[1]

NULL == "<null>"
UNDEF == "<undefined>"

(* Bounds of the model. *)
MaxCalls == 2

(***************************************************************************)
(* lib/errors.ts                                                           *)
(***************************************************************************)

(* createAppError: code and message always; userMessage and domain only    *)
(* when truthy.                                                            *)
createAppError(code, message, userMessage, domain) ==
  [code |-> code, message |-> message,
   userMessage |-> IF userMessage \in {UNDEF, NULL, ""} THEN UNDEF ELSE userMessage,
   domain |-> IF domain \in {UNDEF, NULL, ""} THEN UNDEF ELSE domain]

(* str.replace(/-/g, '_').toUpperCase() on the code bodies of the model.   *)
UpperSnake(body) ==
  CASE body = "failed-precondition" -> "FAILED_PRECONDITION"
    [] body = "permission-denied" -> "PERMISSION_DENIED"
    [] body = "not-found" -> "NOT_FOUND"
    [] body = "unavailable" -> "UNAVAILABLE"
    [] body = "user-not-found" -> "USER_NOT_FOUND"
    [] OTHER -> body

(* 'AUTH_' + s and 'FIRESTORE_' + s on the upper-snake bodies of the model. *)
Prefixed(prefix, s) ==
  CASE prefix = "FIRESTORE_" /\ s = "FAILED_PRECONDITION" -> "FIRESTORE_FAILED_PRECONDITION"
    [] prefix = "FIRESTORE_" /\ s = "PERMISSION_DENIED" -> "FIRESTORE_PERMISSION_DENIED"
    [] prefix = "FIRESTORE_" /\ s = "NOT_FOUND" -> "FIRESTORE_NOT_FOUND"
    [] prefix = "FIRESTORE_" /\ s = "UNAVAILABLE" -> "FIRESTORE_UNAVAILABLE"
    [] prefix = "AUTH_" /\ s = "USER_NOT_FOUND" -> "AUTH_USER_NOT_FOUND"
    [] OTHER -> "<other>"

(* code.startsWith('auth/') with code.slice(5), and the firestore/ twin.   *)
AuthSlice(code) ==
  IF code = "auth/user-not-found" THEN Some("user-not-found") ELSE None
FirestoreSlice(code) ==
  IF code = "firestore/failed-precondition" THEN Some("failed-precondition") ELSE None

(* The bare codes of the set firestoreBare that the model's errors use.    *)
firestoreBare ==
  {"cancelled", "unknown", "invalid-argument", "deadline-exceeded", "not-found",
   "already-exists", "permission-denied", "resource-exhausted", "failed-precondition",
   "aborted", "out-of-range", "unimplemented", "internal", "unavailable", "data-loss"}

normalizeFirebaseCode(code) ==
  IF IsSome(AuthSlice(code)) THEN Some(Prefixed("AUTH_", UpperSnake(Get(AuthSlice(code)))))
  ELSE IF IsSome(FirestoreSlice(code))
    THEN Some(Prefixed("FIRESTORE_", UpperSnake(Get(FirestoreSlice(code)))))
  ELSE IF code \in firestoreBare THEN Some(Prefixed("FIRESTORE_", UpperSnake(code)))
  ELSE None

(* A thrown value e: a record with code and message, UNDEF where the       *)
(* property is missing; "" is the falsy empty string.                      *)
Truthy(s) == s \notin {UNDEF, NULL, ""}

toAppError(e, fbCode, fbMessage, fbUserMessage, fbDomain) ==
  IF e.code # UNDEF /\ e.message # UNDEF /\ Truthy(e.code) /\ Truthy(e.message)
  THEN createAppError(
         IF IsSome(normalizeFirebaseCode(e.code))
           THEN Get(normalizeFirebaseCode(e.code)) ELSE fbCode,
         e.message, fbUserMessage, fbDomain)
  ELSE createAppError(
         fbCode,
         IF Truthy(fbMessage) THEN fbMessage
         ELSE IF e.message # UNDEF THEN e.message ELSE "Unknown error",
         fbUserMessage, fbDomain)

(* /not been used|not enabled|enable.*Firestore/i on the model's messages. *)
NotProvisionedMessages ==
  {"Cloud Firestore API has not been used in project", "Firestore is not enabled"}

isFirestoreNotInitialized(appError) ==
  \/ appError.code = "FIRESTORE_FAILED_PRECONDITION"
  \/ appError.message \in NotProvisionedMessages


(***************************************************************************)
(* lib/firestoreStatus.ts                                                  *)
(***************************************************************************)

(* unavailableReason: None is null.  !unavailableReason is true for null   *)
(* and for the empty string.                                               *)
(* A variant that assigns on every call: marking again clears the reason. *)
markFirestoreUnavailableToggles(cur, reason) ==
  IF cur = None THEN Some(reason) ELSE None

markFirestoreUnavailable(cur, reason) ==
  IF cur = None \/ cur = Some("") THEN Some(reason) ELSE cur

isFirestoreAvailable(cur) == cur = None

getFirestoreUnavailableReason(cur) == cur

(***************************************************************************)
(* The document backend (firebase/firestore), an external collaborator.    *)
(***************************************************************************)

Ids == {"u1", "u2"}

(* The identities the identity provider issues: one with an email and no   *)
(* display name, one with a display name and no email.                     *)
Identity(uid) ==
  IF uid = "u1" THEN [uid |-> "u1", email |-> "a@b.com", displayName |-> NULL]
  ELSE [uid |-> uid, email |-> NULL, displayName |-> "Bob"]

(* createdAt and updatedAt: NoTime is null, ServerTime the value the       *)
(* server assigns for serverTimestamp().                                   *)
NoTime == 0
ServerTime == 1

(* What a backend call can do: succeed, resolve without persisting (a      *)
(* write only), or reject with one of these errors: a Firestore error      *)
(* with a code, or a network failure that carries none.                    *)
BackendError(tag) ==
  CASE tag = "E_precondition" ->
         [code |-> "failed-precondition", message |-> "The database is not set up",
          userMessage |-> UNDEF, domain |-> UNDEF]
    [] tag = "E_denied" ->
         [code |-> "permission-denied", message |-> "Missing or insufficient permissions",
          userMessage |-> UNDEF, domain |-> UNDEF]
    [] tag = "E_unused" ->
         [code |-> "unavailable",
          message |-> "Cloud Firestore API has not been used in project",
          userMessage |-> UNDEF, domain |-> UNDEF]
    [] tag = "E_nocode" ->
         [code |-> UNDEF, message |-> "Failed to fetch",
          userMessage |-> UNDEF, domain |-> UNDEF]
    [] tag = "E_notfound" ->
         [code |-> "not-found", message |-> "No document to update",
          userMessage |-> UNDEF, domain |-> UNDEF]

ErrorTags == {"E_precondition", "E_denied", "E_unused", "E_nocode"}
ReadOutcomes == {"ok"} \cup ErrorTags
WriteOutcomes == {"ok", "dropped"} \cup ErrorTags

(* The backend's own not-provisioned conditions, as the errors present     *)
(* them: the failed-precondition code, or a not enabled / not been used    *)
(* message.                                                                *)
NotProvisioned(tag) == tag \in {"E_precondition", "E_unused"}

(***************************************************************************)
(* services/users.ts: the converter                                        *)
(***************************************************************************)

toFirestore(profile) ==
  [email |-> profile.email,
   displayName |-> IF profile.displayName \in {NULL, UNDEF} THEN NULL
                   ELSE profile.displayName,
   createdAt |-> IF profile.createdAt = NoTime THEN ServerTime ELSE profile.createdAt]

fromFirestore(id, data) ==
  [id |-> id,
   email |-> data.email,
   displayName |-> IF data.displayName \in {NULL, UNDEF} THEN NULL ELSE data.displayName,
   createdAt |-> IF data.createdAt # NoTime THEN data.createdAt ELSE NoTime]

(* The profile ensureUserProfile builds from the identity: the ephemeral   *)
(* profile, and the one it writes.                                         *)
ProfileOf(u) ==
  [id |-> u.uid,
   email |-> IF Truthy(u.email) THEN u.email ELSE "unknown",
   displayName |-> IF u.displayName \in {NULL, UNDEF} THEN NULL ELSE u.displayName,
   createdAt |-> NoTime]

DefaultSettings == [scale |-> Some(125), updatedAt |-> NoTime]
InitialSettings == [scale |-> Some(125), updatedAt |-> ServerTime]


(***************************************************************************)
(* Asynchronous calls of the service functions.                            *)
(*                                                                         *)
(* A world w is [users, userSettings, reason]: the two collections and     *)
(* unavailableReason.  A step function returns [w, c]: the world and the   *)
(* call after the step.  Fields of a call that the program does not hold   *)
(* (ops, opsLatched, outcomes, wrote, seen, latched0) record its history.  *)
(***************************************************************************)

NoCall(fn, uid, name, scale, owner, w) ==
  [fn |-> fn, uid |-> uid, name |-> name, scale |-> scale, owner |-> owner,
   pc |-> "start", st |-> "pending",
   profile |-> None, settings |-> None, err |-> None,
   latched0 |-> ~isFirestoreAvailable(w.reason),
   ops |-> 0, opsLatched |-> 0, outcomes |-> <<>>, wrote |-> <<>>, seen |-> None]

(* The call sends a backend request and suspends at the await `pc`.        *)
Issue(c, pc, w) ==
  [c EXCEPT !.pc = pc, !.ops = @ + 1,
            !.opsLatched = @ + (IF isFirestoreAvailable(w.reason) THEN 0 ELSE 1)]

ReturnProfile(c, p) == [c EXCEPT !.pc = "done", !.st = "return", !.profile = p]
ReturnSettings(c, s) == [c EXCEPT !.pc = "done", !.st = "return", !.settings = s]
ReturnVoid(c) == [c EXCEPT !.pc = "done", !.st = "return"]
Throw(c, e) == [c EXCEPT !.pc = "done", !.st = "throw", !.err = Some(e)]

Observed(c, tag) == [c EXCEPT !.outcomes = Append(@, tag)]

(* The backend applies a write of this call. *)
Wrote(c, col, key, data) ==
  [c EXCEPT !.wrote = Append(@, [col |-> col, key |-> key, data |-> data])]

(* ---- getUserProfile ---------------------------------------------------- *)

(* The catch block of getUserProfile: [w, thrown, value or error]. *)
GetProfileCatch(w, e) ==
  LET appError == toAppError(e, "FIRESTORE_READ_FAILED", "Failed to read user profile",
                             "Could not load user profile.", "FIRESTORE")
  IN IF isFirestoreNotInitialized(appError)
     THEN [w |-> [w EXCEPT !.reason = markFirestoreUnavailable(@, appError.message)],
           thrown |-> FALSE, value |-> None, err |-> appError]
     ELSE [w |-> w, thrown |-> TRUE, value |-> None, err |-> appError]

(* The await of getDoc in getUserProfile completes with `out`. *)
GetProfileRead(w, id, out) ==
  IF out = "ok"
  THEN [w |-> w, thrown |-> FALSE,
        value |-> IF IsSome(w.users[id]) THEN Some(fromFirestore(id, Get(w.users[id])))
                  ELSE None,
        err |-> BackendError("E_denied")]
  ELSE GetProfileCatch(w, BackendError(out))

(* What a read of users/id shows the caller: for the call's history. *)
ReadTag(w, id, out) ==
  IF out # "ok" THEN out ELSE IF IsSome(w.users[id]) THEN "exists" ELSE "absent"

GetUserProfileInvoke(c, w) ==
  IF ~isFirestoreAvailable(w.reason) THEN [w |-> w, c |-> ReturnProfile(c, None)]
  ELSE [w |-> w, c |-> Issue(c, "read", w)]

GetUserProfileStep(c, w, out) ==
  LET r == GetProfileRead(w, c.uid, out)
      c1 == [Observed(c, ReadTag(w, c.uid, out)) EXCEPT !.seen = w.users[c.uid]]
  IN [w |-> r.w, c |-> IF r.thrown THEN Throw(c1, r.err) ELSE ReturnProfile(c1, r.value)]


(* ---- ensureUserProfile ------------------------------------------------- *)

(* The catch block of ensureUserProfile. *)
EnsureProfileCatch(c, w, e) ==
  LET appError == toAppError(e, "FIRESTORE_CREATE_FAILED", "Failed to create user profile",
                             "Could not initialize your profile.", "FIRESTORE")
  IN IF isFirestoreNotInitialized(appError)
     THEN [w |-> [w EXCEPT !.reason = markFirestoreUnavailable(@, appError.message)],
           c |-> ReturnProfile(c, Some(ProfileOf(Identity(c.uid))))]
     ELSE [w |-> w, c |-> Throw(c, appError)]

CreateInconsistent ==
  createAppError("FIRESTORE_CREATE_INCONSISTENT", "User profile creation not persisted",
                 "Profile creation inconsistent.", "FIRESTORE")

(* A variant without the availability check at entry. *)
EnsureUserProfileInvokeUnguarded(c, w) ==
  [w |-> w, c |-> Issue(c, "read1", w)]

EnsureUserProfileInvoke(c, w) ==
  IF ~isFirestoreAvailable(w.reason)
  THEN [w |-> w, c |-> ReturnProfile(c, Some(ProfileOf(Identity(c.uid))))]
  ELSE [w |-> w, c |-> Issue(c, "read1", w)]

(* A variant that writes the profile whether or not one exists. *)
EnsureAfterExistingAlwaysWrites(c, w, existing) ==
  [w |-> w, c |-> Issue(c, "write", w)]

(* const existing = await getUserProfile(user.uid); if (existing) return  *)
(* existing; ...; await setDoc(ref, profile)                               *)
EnsureAfterExisting(c, w, existing) ==
  IF IsSome(existing) THEN [w |-> w, c |-> ReturnProfile(c, existing)]
  ELSE [w |-> w, c |-> Issue(c, "write", w)]

EnsureUserProfileRead1(c, w, out) ==
  LET r == GetProfileRead(w, c.uid, out)
      c1 == [Observed(c, ReadTag(w, c.uid, out)) EXCEPT !.seen = w.users[c.uid]]
  IN IF r.thrown THEN EnsureProfileCatch(c1, r.w, r.err)
     ELSE EnsureAfterExisting(c1, r.w, r.value)

(* A variant that stores the identity's email as it is, without the        *)
(* "unknown" fallback.                                                     *)
EnsureWriteDataRawEmail(c) ==
  toFirestore([ProfileOf(Identity(c.uid)) EXCEPT !.email = Identity(c.uid).email])

(* The document setDoc(ref, profile) stores under the key of ref. *)
EnsureWriteKey(c) == c.uid
EnsureWriteData(c) == toFirestore(ProfileOf(Identity(c.uid)))

(* await setDoc(ref, profile); const created = await getUserProfile(uid)   *)
EnsureUserProfileWrite(c, w, out) ==
  LET c1 == Observed(c, out)
      key == EnsureWriteKey(c)
      w1 == IF out = "ok" THEN [w EXCEPT !.users[key] = Some(EnsureWriteData(c))] ELSE w
      c2 == IF out = "ok" THEN Wrote(c1, "users", key, EnsureWriteData(c)) ELSE c1
  IN IF out \notin {"ok", "dropped"} THEN EnsureProfileCatch(c1, w, BackendError(out))
     ELSE IF ~isFirestoreAvailable(w1.reason)
       THEN EnsureProfileCatch(c2, w1, CreateInconsistent)
     ELSE [w |-> w1, c |-> Issue(c2, "read2", w1)]

(* if (!created) throw createAppError(FIRESTORE_CREATE_INCONSISTENT);      *)
(* return created                                                          *)
EnsureAfterCreated(c, w, created) ==
  IF ~IsSome(created) THEN EnsureProfileCatch(c, w, CreateInconsistent)
  ELSE [w |-> w, c |-> ReturnProfile(c, created)]

EnsureUserProfileRead2(c, w, out) ==
  LET r == GetProfileRead(w, c.uid, out)
      c1 == [Observed(c, ReadTag(w, c.uid, out)) EXCEPT !.seen = w.users[c.uid]]
  IN IF r.thrown THEN EnsureProfileCatch(c1, r.w, r.err)
     ELSE EnsureAfterCreated(c1, r.w, r.value)

(* ---- updateUserProfile ------------------------------------------------- *)

UpdateProfileCatch(c, w, e) ==
  [w |-> w,
   c |-> Throw(c, toAppError(e, "FIRESTORE_UPDATE_FAILED", "Failed to update user profile",
                             "Could not update profile.", "FIRESTORE"))]

ProfileNotFound ==
  createAppError("FIRESTORE_NOT_FOUND", "User profile not found", "Profile not found.",
                 "FIRESTORE")

UpdateUserProfileInvoke(c, w) ==
  IF ~isFirestoreAvailable(w.reason)
  THEN [w |-> w,
        c |-> Throw(c, createAppError("FIRESTORE_NOT_INITIALIZED",
                                      "Firestore not initialized; cannot update profile",
                                      "Profile storage not ready yet.", "FIRESTORE"))]
  ELSE [w |-> w, c |-> Issue(c, "uread1", w)]

UpdateUserProfileRead1(c, w, out) ==
  LET c1 == [Observed(c, ReadTag(w, c.uid, out)) EXCEPT !.seen = w.users[c.uid]]
  IN IF out # "ok" THEN UpdateProfileCatch(c1, w, BackendError(out))
     ELSE IF ~IsSome(w.users[c.uid]) THEN UpdateProfileCatch(c1, w, ProfileNotFound)
     ELSE [w |-> w, c |-> Issue(c1, "uwrite", w)]

(* updateDoc(ref, fields) rejects with not-found when no document exists.  *)
UpdateDocOutcome(col, key, out) ==
  IF out = "ok" /\ ~IsSome(col[key]) THEN "E_notfound" ELSE out

UpdateUserProfileWrite(c, w, out) ==
  LET o == UpdateDocOutcome(w.users, c.uid, out)
      c1 == Observed(c, o)
      data == IF c.name # UNDEF THEN [Get(w.users[c.uid]) EXCEPT !.displayName = c.name]
              ELSE Get(w.users[c.uid])
  IN IF o = "ok"
       THEN [w |-> [w EXCEPT !.users[c.uid] = Some(data)],
             c |-> Issue(Wrote(c1, "users", c.uid, data), "uread2", w)]
     ELSE IF o = "dropped" THEN [w |-> w, c |-> Issue(c1, "uread2", w)]
     ELSE UpdateProfileCatch(c1, w, BackendError(o))

(* return updated.data(): undefined when the document is gone. *)
UpdateUserProfileRead2(c, w, out) ==
  LET c1 == [Observed(c, ReadTag(w, c.uid, out)) EXCEPT !.seen = w.users[c.uid]]
  IN IF out # "ok" THEN UpdateProfileCatch(c1, w, BackendError(out))
     ELSE [w |-> w,
           c |-> ReturnProfile(c1, IF IsSome(w.users[c.uid])
                                     THEN Some(fromFirestore(c.uid, Get(w.users[c.uid])))
                                     ELSE None)]

(* ---- updateUserProfilePartial ------------------------------------------ *)

UpdateUserProfilePartialInvoke(c, w) ==
  IF ~isFirestoreAvailable(w.reason) THEN [w |-> w, c |-> ReturnVoid(c)]
  ELSE [w |-> w, c |-> Issue(c, "pwrite", w)]

(* A failure is logged and swallowed. *)
UpdateUserProfilePartialWrite(c, w, out) ==
  LET o == UpdateDocOutcome(w.users, c.uid, out)
      c1 == Observed(c, o)
      data == [Get(w.users[c.uid]) EXCEPT !.displayName = c.name]
  IN IF o = "ok"
       THEN [w |-> [w EXCEPT !.users[c.uid] = Some(data)],
             c |-> ReturnVoid(Wrote(c1, "users", c.uid, data))]
     ELSE [w |-> w, c |-> ReturnVoid(c1)]


(***************************************************************************)
(* services/userSettings.ts: no function of this file catches an error.    *)
(***************************************************************************)

SettingsReadTag(w, id, out) ==
  IF out # "ok" THEN out ELSE IF IsSome(w.userSettings[id]) THEN "exists" ELSE "absent"

GetUserSettingsInvoke(c, w) ==
  IF ~isFirestoreAvailable(w.reason) THEN [w |-> w, c |-> ReturnSettings(c, None)]
  ELSE [w |-> w, c |-> Issue(c, "sread", w)]

GetUserSettingsStep(c, w, out) ==
  LET c1 == Observed(c, SettingsReadTag(w, c.uid, out))
  IN IF out # "ok" THEN [w |-> w, c |-> Throw(c1, BackendError(out))]
     ELSE [w |-> w, c |-> ReturnSettings(c1, w.userSettings[c.uid])]

EnsureUserSettingsInvoke(c, w) ==
  IF ~isFirestoreAvailable(w.reason)
  THEN [w |-> w, c |-> ReturnSettings(c, Some(DefaultSettings))]
  ELSE [w |-> w, c |-> Issue(c, "esread", w)]

EnsureUserSettingsRead(c, w, out) ==
  LET c1 == Observed(c, SettingsReadTag(w, c.uid, out))
  IN IF out # "ok" THEN [w |-> w, c |-> Throw(c1, BackendError(out))]
     ELSE IF IsSome(w.userSettings[c.uid])
       THEN [w |-> w, c |-> ReturnSettings(c1, w.userSettings[c.uid])]
     ELSE [w |-> w, c |-> Issue(c1, "eswrite", w)]

EnsureUserSettingsWrite(c, w, out) ==
  LET c1 == Observed(c, out)
  IN IF out = "ok"
       THEN [w |-> [w EXCEPT !.userSettings[c.uid] = Some(InitialSettings)],
             c |-> ReturnSettings(Wrote(c1, "userSettings", c.uid, InitialSettings),
                                  Some(InitialSettings))]
     ELSE IF out = "dropped" THEN [w |-> w, c |-> ReturnSettings(c1, Some(InitialSettings))]
     ELSE [w |-> w, c |-> Throw(c1, BackendError(out))]

UpdateUserSettingsInvoke(c, w) ==
  IF ~isFirestoreAvailable(w.reason) THEN [w |-> w, c |-> ReturnVoid(c)]
  ELSE [w |-> w, c |-> Issue(c, "uswrite", w)]

(* updateDoc(ref, {ui: {scale}, updatedAt: serverTimestamp()}) *)
UpdateUserSettingsWrite(c, w, out) ==
  LET o == UpdateDocOutcome(w.userSettings, c.uid, out)
      c1 == Observed(c, o)
      data == [scale |-> Some(c.scale), updatedAt |-> ServerTime]
  IN IF o = "ok"
       THEN [w |-> [w EXCEPT !.userSettings[c.uid] = Some(data)],
             c |-> ReturnVoid(Wrote(c1, "userSettings", c.uid, data))]
     ELSE IF o = "dropped" THEN [w |-> w, c |-> ReturnVoid(c1)]
     ELSE [w |-> w, c |-> Throw(c1, BackendError(o))]

(* ---- dispatch ----------------------------------------------------------- *)

Functions ==
  {"getUserProfile", "ensureUserProfile", "updateUserProfile", "updateUserProfilePartial",
   "getUserSettings", "ensureUserSettings", "updateUserSettings"}

(* The synchronous part of a call, up to its first await or its end. *)
Invoke(c, w) ==
  CASE c.fn = "getUserProfile" -> GetUserProfileInvoke(c, w)
    [] c.fn = "ensureUserProfile" -> EnsureUserProfileInvoke(c, w)
    [] c.fn = "updateUserProfile" -> UpdateUserProfileInvoke(c, w)
    [] c.fn = "updateUserProfilePartial" -> UpdateUserProfilePartialInvoke(c, w)
    [] c.fn = "getUserSettings" -> GetUserSettingsInvoke(c, w)
    [] c.fn = "ensureUserSettings" -> EnsureUserSettingsInvoke(c, w)
    [] c.fn = "updateUserSettings" -> UpdateUserSettingsInvoke(c, w)

(* The await the call is suspended at completes with outcome `out`. *)
Resume(c, w, out) ==
  CASE c.pc = "read" -> GetUserProfileStep(c, w, out)
    [] c.pc = "read1" -> EnsureUserProfileRead1(c, w, out)
    [] c.pc = "write" -> EnsureUserProfileWrite(c, w, out)
    [] c.pc = "read2" -> EnsureUserProfileRead2(c, w, out)
    [] c.pc = "uread1" -> UpdateUserProfileRead1(c, w, out)
    [] c.pc = "uwrite" -> UpdateUserProfileWrite(c, w, out)
    [] c.pc = "uread2" -> UpdateUserProfileRead2(c, w, out)
    [] c.pc = "pwrite" -> UpdateUserProfilePartialWrite(c, w, out)
    [] c.pc = "sread" -> GetUserSettingsStep(c, w, out)
    [] c.pc = "esread" -> EnsureUserSettingsRead(c, w, out)
    [] c.pc = "eswrite" -> EnsureUserSettingsWrite(c, w, out)
    [] c.pc = "uswrite" -> UpdateUserSettingsWrite(c, w, out)

WritePcs == {"write", "uwrite", "pwrite", "eswrite", "uswrite"}
Outcomes(pc) == IF pc \in WritePcs THEN WriteOutcomes ELSE ReadOutcomes

(***************************************************************************)
(* State                                                                   *)
(***************************************************************************)
VARIABLES
  unavailableReason,  \* lib/firestoreStatus.ts: the availability latch
  users,              \* the collection users: id -> optional document
  userSettings,       \* the collection userSettings: id -> optional document
  calls,              \* the service calls made so far, in order of invocation
  fault,              \* the error the backend rejects a request with, when it does
  subject,            \* the identity the callers of the services act for
  user,               \* AuthProvider: user (the uid), None when signed out
  loading,            \* AuthProvider: loading
  profile,            \* AuthProvider: profile
  profileUnsub,       \* AuthProvider: the subscription profileUnsub cancels
  subs,               \* the open profile subscriptions (onSnapshot)
  listening,          \* the onAuthStateChanged listener is subscribed
  events,             \* number of identity-change events delivered
  settings,           \* SettingsProvider: settings
  updating,           \* SettingsProvider: updating
  pendingScaleRef,    \* SettingsProvider: pendingScaleRef.current
  debounceTimerRef,   \* SettingsProvider: debounceTimerRef.current (a timer id)
  lastPersistedScaleRef, \* SettingsProvider: lastPersistedScaleRef.current
  timers,             \* the armed timers of window.setTimeout
  activeLoad,         \* the user of the load effect whose `active` is still true
  uiScale,            \* UiScaleProvider: scale
  storedScale,        \* localStorage["ui-scale"]
  domScale,           \* the --scale property of the document element
  nSetScale,          \* number of setScale calls made (the last timer id)
  nRefresh,           \* number of refresh() calls made
  sinceCall,          \* ticks since the last setScale call, up to the debounce window
  burst,              \* history: the current burst of setScale calls
  lastSetScale        \* history: the argument of setScale when it was the last step

svcVars == <<unavailableReason, users, userSettings, calls, fault, subject>>
authVars == <<user, loading, profile, profileUnsub, subs, listening, events>>
setVars == <<settings, updating, pendingScaleRef, debounceTimerRef, lastPersistedScaleRef,
             timers, activeLoad, uiScale, storedScale, domScale, nSetScale, nRefresh, sinceCall,
             burst, lastSetScale>>
vars == <<svcVars, authVars, setVars>>

World == [users |-> users, userSettings |-> userSettings, reason |-> unavailableReason]

SetWorld(w) ==
  /\ users' = w.users
  /\ userSettings' = w.userSettings
  /\ unavailableReason' = w.reason

ExistingProfile == [email |-> "a@b.com", displayName |-> "Ann", createdAt |-> ServerTime]
ExistingSettings == [scale |-> Some(150), updatedAt |-> ServerTime]

(* AuthProvider after construction: useState(null), useState(true),        *)
(* useState(null), no profile subscription, the listener registered.       *)
InitAuthVars ==
  /\ user = None
  /\ loading = TRUE
  /\ profile = None
  /\ profileUnsub = None
  /\ subs = {}
  /\ listening = TRUE
  /\ events = 0

(* features/ui/UiScaleProvider.tsx *)
DEFAULT_SCALE == 125
MinScale == 80
MaxScale == 200

(* String(v) and parseFloat(raw) on the values localStorage holds in the   *)
(* model: a decimal string is [num |-> Some(v)], a string that does not    *)
(* parse (NaN) is [num |-> None].                                          *)
String(v) == [num |-> Some(v)]
parseFloat(raw) == raw.num

(* The scale the mount effect of UiScaleProvider applies for the stored    *)
(* entry: the parsed value when it lies in [0.8, 2], else the default.     *)
MountScale(entry) ==
  IF /\ IsSome(entry)
     /\ IsSome(parseFloat(Get(entry)))
     /\ Get(parseFloat(Get(entry))) >= MinScale
     /\ Get(parseFloat(Get(entry))) <= MaxScale
  THEN Get(parseFloat(Get(entry)))
  ELSE DEFAULT_SCALE

NoBurst == [uid |-> "-", n |-> 0, last |-> 0, writes |-> 0, written |-> None]

(* SettingsProvider and UiScaleProvider after construction and their mount *)
(* effects, with localStorage holding `entry`.                             *)
InitSetVars(entry) ==
  /\ settings = None
  /\ updating = FALSE
  /\ pendingScaleRef = None
  /\ debounceTimerRef = None
  /\ lastPersistedScaleRef = None
  /\ timers = {}
  /\ activeLoad = None
  /\ uiScale = MountScale(entry)
  /\ storedScale = entry
  /\ domScale = MountScale(entry)
  /\ nSetScale = 0
  /\ nRefresh = 0
  /\ sinceCall = 0
  /\ burst = NoBurst
  /\ lastSetScale = None

InitSvc ==
  /\ unavailableReason = None
  /\ \E stored \in SUBSET {"u1"} :
       /\ users = [id \in Ids |-> IF id \in stored THEN Some(ExistingProfile) ELSE None]
       /\ userSettings = [id \in Ids |-> IF id \in stored THEN Some(ExistingSettings)
                                         ELSE None]
  /\ calls = <<>>
  /\ fault \in ErrorTags
  /\ subject \in Ids
  /\ InitAuthVars
  /\ InitSetVars(None)

(* The arguments the model draws for a call. *)
Names == {"Alice", NULL}
ScaleArgs == {100}

NameArgs(fn) ==
  IF fn \in {"updateUserProfile", "updateUserProfilePartial"} THEN Names ELSE {UNDEF}

(* A caller outside the session managers invokes a service function. *)
SvcInvoke(fn, uid, name, scale) ==
  /\ Len(calls) < MaxCalls
  /\ LET r == Invoke(NoCall(fn, uid, name, scale, "caller", World), World)
     IN /\ calls' = Append(calls, r.c)
        /\ SetWorld(r.w)
  /\ UNCHANGED <<fault, subject, authVars, setVars>>

(* The backend answers the request call i waits for. *)
SvcComplete(i, out) ==
  /\ calls[i].pc # "done"
  /\ calls[i].owner = "caller"
  /\ out \in Outcomes(calls[i].pc)
  /\ out \in ErrorTags => out = fault
  /\ LET r == Resume(calls[i], World, out)
     IN /\ calls' = [calls EXCEPT ![i] = r.c]
        /\ SetWorld(r.w)
  /\ UNCHANGED <<fault, subject, authVars, setVars>>

NextSvc ==
  \/ \E fn \in Functions, scale \in ScaleArgs :
       \E name \in NameArgs(fn) : SvcInvoke(fn, subject, name, scale)
  \/ \E i \in 1..Len(calls), out \in WriteOutcomes : SvcComplete(i, out)

SpecSvc == InitSvc /\ [][NextSvc]_vars


(***************************************************************************)
(* Properties of the services (under SpecSvc)                              *)
(***************************************************************************)

Call(i) == calls[i]
CallIds == 1..Len(calls)
Done(c) == c.pc = "done"
Returned(c) == c.pc = "done" /\ c.st = "return"
Raised(c) == c.pc = "done" /\ c.st = "throw"

(* The email and display name ensureUserProfile is to use for identity u. *)
EmailFor(u) == IF u.email \in {NULL, UNDEF, ""} THEN "unknown" ELSE u.email
NameFor(u) == IF u.displayName \in {NULL, UNDEF} THEN NULL ELSE u.displayName

(* The degraded result of a call: absent, the default settings, the        *)
(* in-memory profile of the identity, or nothing at all.                   *)
Degraded(c) ==
  /\ Returned(c)
  /\ c.wrote = <<>>
  /\ c.fn \in {"getUserProfile", "getUserSettings", "updateUserSettings",
               "updateUserProfilePartial"} => c.profile = None /\ c.settings = None
  /\ c.fn = "ensureUserSettings" =>
       c.settings = Some([scale |-> Some(125), updatedAt |-> NoTime])
  /\ c.fn = "ensureUserProfile" =>
       c.profile = Some([id |-> c.uid, email |-> EmailFor(Identity(c.uid)),
                         displayName |-> NameFor(Identity(c.uid)), createdAt |-> NoTime])

(* C4: a service operation invoked after the availability latch was set    *)
(* issues no backend read or write, and getUserProfile, getUserSettings,   *)
(* ensureUserSettings, ensureUserProfile, updateUserSettings and           *)
(* updateUserProfilePartial return their degraded results.                 *)
C4_LatchedCallsShortCircuit ==
  \A i \in CallIds :
    Call(i).latched0 =>
      /\ Done(Call(i))
      /\ Call(i).ops = 0
      /\ Call(i).outcomes = <<>>
      /\ Call(i).fn # "updateUserProfile" => Degraded(Call(i))

C4_Witness ==
  \E i \in CallIds :
    /\ Call(i).latched0
    /\ Call(i).fn = "ensureUserProfile"
    /\ Returned(Call(i))

(* C5: once isFirestoreAvailable returns false it returns false in every   *)
(* later state.                                                            *)
C5_LatchMonotonic ==
  [][~isFirestoreAvailable(unavailableReason)
       => ~isFirestoreAvailable(unavailableReason')]_vars

(* Two calls that were both in flight have each met a not-provisioned      *)
(* failure: markFirestoreUnavailable ran again after the latch was set.    *)
C5_Witness ==
  \E i, j \in CallIds :
    /\ i # j
    /\ ~isFirestoreAvailable(unavailableReason)
    /\ \A k \in {i, j} :
         /\ Call(k).fn \in {"getUserProfile", "ensureUserProfile"}
         /\ ~Call(k).latched0
         /\ Done(Call(k))
         /\ \E n \in 1..Len(Call(k).outcomes) : NotProvisioned(Call(k).outcomes[n])

(* C6: a read or create operation whose backend call fails with a          *)
(* not-provisioned condition sets the latch, returns its degraded value    *)
(* and raises nothing.                                                     *)
C6_NotProvisionedRecovered ==
  \A i \in CallIds :
    ( /\ Call(i).fn \in {"getUserProfile", "ensureUserProfile", "getUserSettings",
                         "ensureUserSettings"}
      /\ Done(Call(i))
      /\ \E n \in 1..Len(Call(i).outcomes) : NotProvisioned(Call(i).outcomes[n]) )
    => /\ ~isFirestoreAvailable(unavailableReason)
       /\ Degraded(Call(i))

(* C7: an ensureUserProfile call whose look-up finds the profile document  *)
(* writes nothing, issues no request but that one read, and returns the    *)
(* stored record.                                                          *)
C7_EnsureIdempotent ==
  \A i \in CallIds :
    ( /\ Call(i).fn = "ensureUserProfile"
      /\ Len(Call(i).outcomes) >= 1
      /\ Call(i).outcomes[1] = "exists" )
    => /\ Returned(Call(i))
       /\ Call(i).ops = 1
       /\ Call(i).wrote = <<>>
       /\ Call(i).profile =
            Some([id |-> Call(i).uid,
                  email |-> Get(Call(i).seen).email,
                  displayName |-> Get(Call(i).seen).displayName,
                  createdAt |-> Get(Call(i).seen).createdAt])

(* Two calls for the same identity both found the document. *)
C7_Witness ==
  \E i, j \in CallIds :
    /\ i # j
    /\ \A k \in {i, j} :
         /\ Call(k).fn = "ensureUserProfile"
         /\ Call(k).outcomes = <<"exists">>
         /\ Returned(Call(k))
    /\ Call(i).uid = Call(j).uid
    /\ Call(i).profile = Call(j).profile

(* C8: an ensureUserProfile call whose look-up finds no document and whose *)
(* backend calls succeed makes exactly one write, of the document keyed by *)
(* the identity id with the identity's email (or "unknown") and display    *)
(* name (or null); the document then exists, and the call returns the      *)
(* record it re-read.                                                      *)
C8_EnsureCreates ==
  \A i \in CallIds :
    ( /\ Call(i).fn = "ensureUserProfile"
      /\ Len(Call(i).outcomes) >= 2
      /\ Call(i).outcomes[1] = "absent"
      /\ Call(i).outcomes[2] = "ok" )
    => /\ Call(i).wrote =
            <<[col |-> "users", key |-> Call(i).uid,
               data |-> [email |-> EmailFor(Identity(Call(i).uid)),
                         displayName |-> NameFor(Identity(Call(i).uid)),
                         createdAt |-> ServerTime]]>>
       /\ IsSome(users[Call(i).uid])
       /\ Call(i).outcomes = <<"absent", "ok", "exists">> =>
            /\ Returned(Call(i))
            /\ Call(i).ops = 3
            /\ Call(i).profile =
                 Some([id |-> Call(i).uid,
                       email |-> Get(Call(i).seen).email,
                       displayName |-> Get(Call(i).seen).displayName,
                       createdAt |-> Get(Call(i).seen).createdAt])
            /\ Get(Call(i).profile).createdAt # NoTime

C8_Witness ==
  \E i \in CallIds :
    /\ Call(i).fn = "ensureUserProfile"
    /\ Call(i).uid = "u2"
    /\ Call(i).outcomes = <<"absent", "ok", "exists">>
    /\ Returned(Call(i))
    /\ Get(Call(i).profile).email = "unknown"

(* C9: when the write of ensureUserProfile resolves without error and the  *)
(* re-read finds nothing, the error raised has code                         *)
(* FIRESTORE_CREATE_INCONSISTENT.                                          *)
C9_CreateInconsistentCode ==
  \A i \in CallIds :
    ( /\ Call(i).fn = "ensureUserProfile"
      /\ Len(Call(i).outcomes) = 3
      /\ Call(i).outcomes[2] \in {"ok", "dropped"}
      /\ Call(i).outcomes[3] = "absent" )
    => /\ Raised(Call(i))
       /\ Get(Call(i).err).code = "FIRESTORE_CREATE_INCONSISTENT"

(* C10: updateUserProfile for an id without a profile document raises an   *)
(* error with code FIRESTORE_NOT_FOUND, issues no write and changes no     *)
(* document.                                                               *)
C10_UpdateMissingNotFound ==
  \A i \in CallIds :
    ( /\ Call(i).fn = "updateUserProfile"
      /\ Len(Call(i).outcomes) >= 1
      /\ Call(i).outcomes[1] = "absent" )
    => /\ Raised(Call(i))
       /\ Get(Call(i).err).code = "FIRESTORE_NOT_FOUND"
       /\ Call(i).ops = 1
       /\ Call(i).wrote = <<>>

(* C11: a getUserProfile call whose backend read fails with an error that  *)
(* does not match the not-initialized predicate (a coded error such as     *)
(* permission-denied included) raises an error with code                   *)
(* FIRESTORE_READ_FAILED.                                                  *)
C11_ReadFailedCode ==
  \A i \in CallIds :
    ( /\ Call(i).fn = "getUserProfile"
      /\ Len(Call(i).outcomes) = 1
      /\ Call(i).outcomes[1] \in ErrorTags
      /\ ~NotProvisioned(Call(i).outcomes[1]) )
    => /\ Raised(Call(i))
       /\ Get(Call(i).err).code = "FIRESTORE_READ_FAILED"


(* C24: once the availability latch is set no service function issues a    *)
(* backend read or write any more, a function that was already in progress *)
(* when the latch was set included: no call has issued a request while the *)
(* latch was set.                                                          *)
C24_NoBackendOpAfterLatch ==
  \A i \in CallIds : Call(i).opsLatched = 0


(* C28: ensureUserProfile never overwrites an existing profile document,   *)
(* under every interleaving of concurrent ensureUserProfile calls for the  *)
(* same identity with updateUserProfile: when the write of a call that    *)
(* read no document is applied, the backend being available, no document   *)
(* exists for the identity.                                                *)
C28_EnsureNeverOverwrites ==
  [][ \A i \in CallIds :
        ( /\ Call(i).fn = "ensureUserProfile"
          /\ Call(i).pc = "write"
          /\ Call(i).outcomes = <<"absent">>
          /\ isFirestoreAvailable(unavailableReason)
          /\ Len(calls'[i].wrote) > Len(Call(i).wrote) )
        => users[Call(i).uid] = None
    ]_vars


(***************************************************************************)
(* features/auth/AuthProvider.tsx                                          *)
(*                                                                         *)
(* The state of the provider as a record a = [user, loading, profile,      *)
(* profileUnsub, subs].  A subscription is [id, uid]: id is the index of   *)
(* the ensureUserProfile call of the handler that opened it.               *)
(***************************************************************************)

MaxEvents == 3

AuthState ==
  [user |-> user, loading |-> loading, profile |-> profile,
   profileUnsub |-> profileUnsub, subs |-> subs]

SetAuthState(a) ==
  /\ user' = a.user
  /\ loading' = a.loading
  /\ profile' = a.profile
  /\ profileUnsub' = a.profileUnsub
  /\ subs' = a.subs

(* if (profileUnsub) { profileUnsub(); profileUnsub = undefined; } *)
CancelProfileSub(a) ==
  IF IsSome(a.profileUnsub)
  THEN [a EXCEPT !.subs = {x \in @ : x.id # Get(a.profileUnsub)}, !.profileUnsub = None]
  ELSE a

(* The handler of an identity-change event, up to its await (u present)    *)
(* or to its end (u absent).                                               *)
HandlerStart(a, u) ==
  LET a1 == [CancelProfileSub(a) EXCEPT !.user = u]
  IN IF IsSome(u) THEN a1
     ELSE [a1 EXCEPT !.profile = None, !.loading = FALSE]

(* A handler whose catch does not contain the failure of ensureUserProfile: *)
(* the error leaves the handler before setProfile(null) and                *)
(* setLoading(false).                                                      *)
HandlerAfterEnsureRethrows(a, i, c, reason) ==
  IF c.st = "throw" THEN a
  ELSE LET a1 == [a EXCEPT !.profile = c.profile]
           a2 == IF isFirestoreAvailable(reason)
                 THEN [a1 EXCEPT !.subs = @ \cup {[id |-> i, uid |-> c.uid]},
                                 !.profileUnsub = Some(i)]
                 ELSE a1
       IN [a2 EXCEPT !.loading = FALSE]

(* The handler after await ensureUserProfile(u): c is the settled call,    *)
(* i its index, reason the availability latch.                             *)
HandlerAfterEnsure(a, i, c, reason) ==
  LET a1 == [a EXCEPT !.profile = IF c.st = "return" THEN c.profile ELSE None]
      a2 == IF isFirestoreAvailable(reason)
            THEN [a1 EXCEPT !.subs = @ \cup {[id |-> i, uid |-> c.uid]},
                            !.profileUnsub = Some(i)]
            ELSE a1
  IN [a2 EXCEPT !.loading = FALSE]

(* x ?? y on string fields *)
Nullish(x) == x \in {NULL, UNDEF}

(* The onNext callback of onSnapshot: merges the raw document data into    *)
(* the profile; u is the identity the handler was called with.             *)
SnapshotMerge(prev, u, data) ==
  [id |-> u.uid,
   email |-> IF ~Nullish(data.email) THEN data.email
             ELSE IF IsSome(prev) /\ ~Nullish(Get(prev).email) THEN Get(prev).email
             ELSE IF ~Nullish(u.email) THEN u.email
             ELSE "unknown",
   displayName |-> IF ~Nullish(data.displayName) THEN data.displayName ELSE NULL,
   createdAt |-> IF data.createdAt # NoTime THEN data.createdAt
                 ELSE IF IsSome(prev) /\ Get(prev).createdAt # NoTime
                   THEN Get(prev).createdAt
                 ELSE NoTime]

(* The promise of a settled call once its awaiter has consumed the result: *)
(* only the fact that it settled, and how, is kept.                        *)
Consumed(c) ==
  IF c.pc # "done" THEN c
  ELSE [c EXCEPT !.profile = None, !.settings = None, !.err = None, !.ops = 0,
                 !.opsLatched = 0, !.outcomes = <<>>, !.wrote = <<>>, !.seen = None]

(* onAuthStateChanged delivers identity u (None: signed out).  Successive  *)
(* events carry different identities.                                      *)
AuthStateChanged(u) ==
  /\ listening
  /\ events < MaxEvents
  /\ events > 0 => u # user
  /\ events' = events + 1
  /\ IF IsSome(u)
     THEN LET r == Invoke(NoCall("ensureUserProfile", Get(u), UNDEF, 100, "auth", World),
                          World)
              i == Len(calls) + 1
          IN /\ calls' = Append(calls, Consumed(r.c))
             /\ SetWorld(r.w)
             /\ IF r.c.pc = "done"
                THEN SetAuthState(HandlerAfterEnsure(HandlerStart(AuthState, u), i, r.c,
                                                     r.w.reason))
                ELSE SetAuthState(HandlerStart(AuthState, u))
     ELSE /\ SetAuthState(HandlerStart(AuthState, u))
          /\ UNCHANGED <<unavailableReason, users, userSettings, calls>>
  /\ UNCHANGED <<fault, subject, listening, setVars>>

(* The backend answers the request the ensureUserProfile call of a handler *)
(* waits for; when the call settles, the handler runs to its end.          *)
AuthEnsureResume(i, out) ==
  /\ calls[i].pc # "done"
  /\ calls[i].owner = "auth"
  /\ out \in Outcomes(calls[i].pc)
  /\ out \in ErrorTags => out = fault
  /\ \E r \in {Resume(calls[i], World, out)} :
        /\ calls' = [calls EXCEPT ![i] = Consumed(r.c)]
        /\ SetWorld(r.w)
        /\ IF r.c.pc = "done"
           THEN SetAuthState(HandlerAfterEnsure(AuthState, i, r.c, r.w.reason))
           ELSE UNCHANGED <<user, loading, profile, profileUnsub, subs>>
  /\ UNCHANGED <<fault, subject, listening, events, setVars>>

(* An open subscription delivers a snapshot of its document. *)
ProfileSnapshot(sub) ==
  /\ sub \in subs
  /\ IsSome(users[sub.uid])
  /\ profile' = Some(SnapshotMerge(profile, Identity(sub.uid), Get(users[sub.uid])))
  /\ UNCHANGED <<svcVars, user, loading, profileUnsub, subs, listening, events, setVars>>

(* The cleanup of the effect: unsubscribe(); if (profileUnsub) profileUnsub() *)
Dispose ==
  /\ listening
  /\ listening' = FALSE
  /\ subs' = IF IsSome(profileUnsub) THEN {x \in subs : x.id # Get(profileUnsub)} ELSE subs
  /\ UNCHANGED <<svcVars, user, loading, profile, profileUnsub, events, setVars>>

InitAuth ==
  /\ unavailableReason = None
  /\ \E stored \in SUBSET {"u1"} :
       /\ users = [id \in Ids |-> IF id \in stored THEN Some(ExistingProfile) ELSE None]
       /\ userSettings = [id \in Ids |-> None]
  /\ calls = <<>>
  /\ fault \in {"E_precondition", "E_denied"}
  /\ subject = "u1"
  /\ InitAuthVars
  /\ InitSetVars(None)

NextAuth ==
  \/ \E u \in {None} \cup {Some(id) : id \in Ids} : AuthStateChanged(u)
  \/ \E i \in 1..Len(calls), out \in WriteOutcomes : AuthEnsureResume(i, out)
  \/ \E sub \in subs : ProfileSnapshot(sub)
  \/ Dispose

SpecAuth == InitAuth /\ [][NextAuth]_vars

(* C3: the profile held by the auth session manager is null or belongs to  *)
(* the current identity; while no identity is present it is null.          *)
C3_ProfileOfCurrentIdentity ==
  IsSome(profile) => IsSome(user) /\ Get(profile).id = Get(user)


(* C12: at most one profile subscription is open at any time, and an open  *)
(* subscription is on the profile document of the current identity, a user *)
(* being signed in.                                                        *)
C12_SingleLiveSubscription ==
  /\ Cardinality(subs) <= 1
  /\ \A s \in subs : IsSome(user) /\ s.uid = Get(user)

(* C13: after the session manager is disposed, no profile subscription is  *)
(* open, also when an ensureUserProfile call was in flight at disposal.    *)
C13_NoSubscriptionAfterDispose == ~listening => subs = {}

(* C14: loading is false only when the handling of the most recent         *)
(* identity-change event has completed: no ensureUserProfile call for the  *)
(* current identity is in flight while loading is false.                   *)
C14_LoadingUntilHandled ==
  ~loading =>
    \A i \in CallIds :
      (Call(i).owner = "auth" /\ IsSome(user) /\ Call(i).uid = Get(user)) => Done(Call(i))

(* ---- termination of the handler ---------------------------------------- *)

(* The backend answers the request the i-th ensureUserProfile call waits   *)
(* for.                                                                    *)
EnsureTerminates(i) ==
  /\ i \in CallIds
  /\ \E out \in WriteOutcomes : AuthEnsureResume(i, out)

(* The number of identity-change events in a behaviour of SpecAuthFair. *)
MaxFairEvents == 2

(* A step of the session manager within that number of events. *)
NextAuthFair == NextAuth /\ events' <= MaxFairEvents

(* The session manager under the assumption that every request of an       *)
(* ensureUserProfile call is eventually answered.                          *)
SpecAuthFair ==
  /\ InitAuth
  /\ [][NextAuthFair]_vars
  /\ \A i \in 1..MaxFairEvents : WF_vars(EnsureTerminates(i))

(* C25: after every identity-change event, provided the ensureUserProfile  *)
(* call terminates, the handler eventually completes and loading becomes   *)
(* false, whether the call succeeds or fails; when it fails the profile is *)
(* set to null, the user stays set and the handler runs to its end; once   *)
(* false, loading never becomes true again.                                *)
C25_HandlerCompletes ==
  /\ (events > 0) ~> ~loading
  /\ (\E i \in CallIds : ~Done(Call(i)))
       ~> (~loading /\ \A i \in CallIds : Done(Call(i)))
  /\ [][ /\ loading' => loading
         /\ \A i \in CallIds :
              (~Done(calls[i]) /\ Done(calls'[i]) /\ calls'[i].st = "throw") =>
                /\ profile' = None
                /\ user' = user
                /\ ~loading'
     ]_vars

(* An ensureUserProfile call of a handler has failed; the handler has run  *)
(* to its end.                                                             *)
C25_Witness ==
  \E i \in CallIds :
    /\ Call(i).owner = "auth"
    /\ Raised(Call(i))
    /\ ~loading
    /\ profile = None
    /\ IsSome(user)

(* ---- the route guard ---------------------------------------------------- *)

(* A guard that does not wait for loading. *)
ProtectedRouteIgnoresLoading(u, isLoading) ==
  IF ~IsSome(u) THEN "Navigate /login" ELSE "children"

(* components/ProtectedRoute: what it renders for useAuth() = {user, loading} *)
ProtectedRoute(u, isLoading) ==
  IF isLoading THEN "Spinner"
  ELSE IF ~IsSome(u) THEN "Navigate /login"
  ELSE "children"

(* RootRedirect, the element of the route "/" *)
RootRedirect(u, isLoading) ==
  IF isLoading THEN "null"
  ELSE IF IsSome(u) THEN "Navigate /dashboard"
  ELSE "Navigate /login"

(* LoginPage: the redirect before the form *)
LoginPage(u) == IF IsSome(u) THEN "Navigate /dashboard" ELSE "form"

(* C20: the route guard renders the protected content only when loading is *)
(* false and a user is present, the spinner while loading, and a redirect  *)
(* to /login when loading is false and no user is present; the login page  *)
(* redirects to /dashboard whenever a user is present.                     *)
C20_RouteGuard ==
  /\ ProtectedRoute(user, loading) = "children" => ~loading /\ user # None
  /\ loading => ProtectedRoute(user, loading) = "Spinner"
  /\ (~loading /\ user = None) => ProtectedRoute(user, loading) = "Navigate /login"
  /\ user # None => LoginPage(user) = "Navigate /dashboard"

(* A user is signed in, the handler is done and the profile is held: the   *)
(* protected content is shown.                                             *)
C20_Witness ==
  /\ ~loading
  /\ user = Some("u1")
  /\ IsSome(profile)
  /\ ProtectedRoute(user, loading) = "children"
  /\ LoginPage(user) = "Navigate /dashboard"

(***************************************************************************)
(* features/settings/SettingsProvider.tsx and                              *)
(* features/ui/UiScaleProvider.tsx                                         *)
(*                                                                         *)
(* The settings manager as a record m = [settings, updating, pending,      *)
(* timerRef, lastPersisted, timers]; a timer is [id, uid, left, armed]:    *)
(* uid is the user of the closure that armed it, left the ticks until it   *)
(* is due, armed the number of identity changes seen when it was armed.    *)
(* The UI-scale layer as ui = [scale, stored, dom].                        *)
(***************************************************************************)

(* The operations of a behaviour: identity changes, setScale and refresh   *)
(* calls, and the latching of the backend, together.                       *)
MaxOps == 4
OpsLeft ==
  /\ listening
  /\ events + nSetScale + nRefresh
       + (IF isFirestoreAvailable(unavailableReason) THEN 0 ELSE 1) < MaxOps

(* The debounce window of 500 ms, in ticks. *)
DebounceTicks == 2

ScaleInputs == {50, 125, 250}

Min2(a, b) == IF a < b THEN a ELSE b
Max2(a, b) == IF a > b THEN a ELSE b

ClampLowerOnly(v) == Max2(MinScale, v)

(* Math.min(2, Math.max(0.8, v)) *)
Clamp(v) == Min2(MaxScale, Max2(MinScale, v))

(* settings?.ui?.scale *)
ScaleOf(s) == IF IsSome(s) THEN Get(s).scale ELSE None

Manager ==
  [settings |-> settings, updating |-> updating, pending |-> pendingScaleRef,
   timerRef |-> debounceTimerRef, lastPersisted |-> lastPersistedScaleRef,
   timers |-> timers]

SetManager(m) ==
  /\ settings' = m.settings
  /\ updating' = m.updating
  /\ pendingScaleRef' = m.pending
  /\ debounceTimerRef' = m.timerRef
  /\ lastPersistedScaleRef' = m.lastPersisted
  /\ timers' = m.timers

Ui == [scale |-> uiScale, stored |-> storedScale, dom |-> domScale]

SetUi(ui) ==
  /\ uiScale' = ui.scale
  /\ storedScale' = ui.stored
  /\ domScale' = ui.dom

(* UiScaleProvider, the effect on [settings?.ui?.scale]: runs when the     *)
(* value changed between two renders; a truthy number overrides the scale. *)
UiSettingsEffect(old, new, ui) ==
  IF ScaleOf(new) # ScaleOf(old) /\ IsSome(ScaleOf(new)) /\ Get(ScaleOf(new)) # 0
  THEN [scale |-> Get(ScaleOf(new)), stored |-> Some(String(Get(ScaleOf(new)))),
        dom |-> Get(ScaleOf(new))]
  ELSE ui

ClearTimerNoOp(ts, ref) == ts

(* if (debounceTimerRef.current) window.clearTimeout(debounceTimerRef.current) *)
ClearTimer(ts, ref) == {x \in ts : ~(IsSome(ref) /\ x.id = Get(ref))}

RearmKeepsPrevious(ts, ref, t) == ts \cup {t}

(* clearTimeout of the previous timer, then setTimeout(..., 500) *)
Rearm(ts, ref, t) == ClearTimer(ts, ref) \cup {t}

(* SettingsProvider.setScale(v) for user u (None: no user); id is the id   *)
(* of the timer setTimeout returns.                                        *)
ProviderSetScale(m, u, v, id) ==
  IF ~IsSome(u) THEN m
  ELSE [m EXCEPT
          !.settings = Some([scale |-> Some(Clamp(v)),
                             updatedAt |-> IF IsSome(m.settings)
                                             THEN Get(m.settings).updatedAt ELSE NoTime]),
          !.pending = Some(Clamp(v)),
          !.timers = Rearm(m.timers, m.timerRef,
                           [id |-> id, uid |-> Get(u), left |-> DebounceTicks,
                            armed |-> events]),
          !.timerRef = Some(id)]

(* UiScaleProvider.setScale(v), before it forwards to the settings manager *)
UiApply(ui, v) ==
  [scale |-> Clamp(v), stored |-> Some(String(Clamp(v))), dom |-> Clamp(v)]

(* The continuations of the three awaits of SettingsProvider. *)
LoadSettled(m, c, active) ==
  IF active /\ c.st = "return"
  THEN [m EXCEPT !.settings = c.settings, !.lastPersisted = ScaleOf(c.settings)]
  ELSE m

RefreshSettled(m, c) ==
  IF c.st = "return" THEN [m EXCEPT !.settings = c.settings] ELSE m

PersistSettledRecordsFailure(m, c) ==
  [m EXCEPT !.lastPersisted = Some(c.scale), !.updating = FALSE]

PersistSettled(m, c) ==
  [m EXCEPT !.lastPersisted = IF c.st = "return" THEN Some(c.scale) ELSE @,
            !.updating = FALSE]

(* The cleanup of the load effect sets its `active` flag to false: the     *)
(* load it started, if still in flight, is stale from then on.             *)
Stale(cs) ==
  [i \in DOMAIN cs |-> IF cs[i].owner = "load" THEN [cs[i] EXCEPT !.owner = "stale"]
                       ELSE cs[i]]

(* The calls in flight: a call that settled is no longer tracked. *)
Track(cs, c) == IF c.pc = "done" THEN cs ELSE Append(cs, c)

Settle(cs, i, c) ==
  IF c.pc = "done" THEN SubSeq(cs, 1, i - 1) \o SubSeq(cs, i + 1, Len(cs))
  ELSE [cs EXCEPT ![i] = c]

ShouldPersistAlways(m) == IsSome(m.pending)

(* The timer callback decides to persist: value is pendingScaleRef.current *)
ShouldPersist(m) == IsSome(m.pending) /\ m.pending # m.lastPersisted

(* ---- history of the current burst --------------------------------------- *)

(* A setScale call of user uid with clamped value cv. *)
BurstCall(b, uid, cv, since, n) ==
  IF n > 0 /\ b.uid = uid /\ since < DebounceTicks
  THEN [b EXCEPT !.last = cv, !.n = @ + 1]
  ELSE [uid |-> uid, n |-> 1, last |-> cv, writes |-> 0, written |-> None]

(* A timer callback has sent the remote write of value. *)
BurstWrite(b, value) == [b EXCEPT !.writes = @ + 1, !.written = Some(value)]

(* ---- actions ------------------------------------------------------------- *)

(* The user of useAuth() changes to u: the cleanups of the two [user]      *)
(* effects run, then the load effect.                                      *)
SessionChanged(u) ==
  /\ OpsLeft
  /\ u # user
  /\ events' = events + 1
  /\ user' = u
  /\ loading' = IF IsSome(u) THEN loading ELSE FALSE
  /\ LET m1 == [Manager EXCEPT !.timers = ClearTimer(@, Manager.timerRef)]
     IN IF IsSome(u)
        THEN LET r == Invoke(NoCall("ensureUserSettings", Get(u), UNDEF, 100, "load",
                                    World), World)
                 m2 == IF r.c.pc = "done" THEN LoadSettled(m1, r.c, TRUE) ELSE m1
             IN /\ calls' = Track(Stale(calls), r.c)
                /\ SetWorld(r.w)
                /\ activeLoad' = u
                /\ SetManager(m2)
                /\ SetUi(UiSettingsEffect(settings, m2.settings, Ui))
        ELSE /\ SetManager([m1 EXCEPT !.settings = None])
             /\ SetUi(UiSettingsEffect(settings, None, Ui))
             /\ activeLoad' = None
             /\ calls' = Stale(calls)
             /\ UNCHANGED <<unavailableReason, users, userSettings>>
  /\ lastSetScale' = None
  /\ UNCHANGED <<fault, subject, profile, profileUnsub, subs, listening, nSetScale,
                 nRefresh, sinceCall, burst>>

(* The handler of the identity-change event ends: setLoading(false). *)
SessionLoaded ==
  /\ loading
  /\ IsSome(user)
  /\ loading' = FALSE
  /\ lastSetScale' = None
  /\ UNCHANGED <<svcVars, user, profile, profileUnsub, subs, listening, events, settings,
                 updating, pendingScaleRef, debounceTimerRef, lastPersistedScaleRef,
                 timers, activeLoad, uiScale, storedScale, domScale, nSetScale, nRefresh,
                 sinceCall, burst>>

(* The settings page calls setScale(v) of useUiScale(); the page is        *)
(* rendered inside ProtectedRoute: loading is false and a user is present. *)
UiSetScale(v) ==
  /\ ~loading
  /\ IsSome(user)
  /\ OpsLeft
  /\ nSetScale' = nSetScale + 1
  /\ LET m1 == ProviderSetScale(Manager, user, Clamp(v), nSetScale + 1)
     IN /\ SetManager(m1)
        /\ SetUi(UiSettingsEffect(settings, m1.settings, UiApply(Ui, v)))
  /\ burst' = BurstCall(burst, Get(user),
                        IF v < 80 THEN 80 ELSE IF v > 200 THEN 200 ELSE v,
                        sinceCall, nSetScale)
  /\ sinceCall' = 0
  /\ lastSetScale' = Some(v)
  /\ UNCHANGED <<svcVars, authVars, activeLoad, nRefresh>>

(* Time passes by one tick; a timer that is due fires first. *)
Tick ==
  /\ \A t \in timers : t.left > 0
  /\ timers # {} \/ sinceCall < DebounceTicks
  /\ timers' = {[t EXCEPT !.left = @ - 1] : t \in timers}
  /\ sinceCall' = Min2(sinceCall + 1, DebounceTicks)
  /\ lastSetScale' = None
  /\ UNCHANGED <<svcVars, authVars, settings, updating, pendingScaleRef, debounceTimerRef,
                 lastPersistedScaleRef, activeLoad, uiScale, storedScale, domScale,
                 nSetScale, nRefresh, burst>>

(* The callback of the debounce timer t runs. *)
TimerFires(t) ==
  /\ t \in timers
  /\ t.left = 0
  /\ LET m1 == [Manager EXCEPT !.timers = @ \ {t}]
     IN IF ShouldPersist(m1)
        THEN LET r == Invoke(NoCall("updateUserSettings", t.uid, UNDEF, Get(m1.pending),
                                    IF listening /\ t.armed = events THEN "persist"
                                    ELSE "stray", World), World)
                 m2 == [m1 EXCEPT !.updating = TRUE]
             IN /\ calls' = Track(calls, r.c)
                /\ SetWorld(r.w)
                /\ SetManager(IF r.c.pc = "done" THEN PersistSettled(m2, r.c) ELSE m2)
                /\ burst' = IF r.c.ops > 0 THEN BurstWrite(burst, r.c.scale) ELSE burst
        ELSE /\ SetManager(m1)
             /\ UNCHANGED <<unavailableReason, users, userSettings, calls, burst>>
  /\ lastSetScale' = None
  /\ UNCHANGED <<fault, subject, authVars, activeLoad, uiScale, storedScale, domScale,
                 nSetScale, nRefresh, sinceCall>>

(* refresh() *)
Refresh ==
  /\ IsSome(user)
  /\ OpsLeft
  /\ nRefresh' = nRefresh + 1
  /\ LET r == Invoke(NoCall("getUserSettings", Get(user), UNDEF, 100, "refresh", World),
                     World)
         m1 == IF r.c.pc = "done" THEN RefreshSettled(Manager, r.c) ELSE Manager
     IN /\ calls' = Track(calls, r.c)
        /\ SetWorld(r.w)
        /\ SetManager(m1)
        /\ SetUi(UiSettingsEffect(settings, m1.settings, Ui))
  /\ lastSetScale' = None
  /\ UNCHANGED <<fault, subject, authVars, activeLoad, nSetScale, sinceCall, burst>>

(* The backend answers the request a call of the settings manager waits    *)
(* for; when the call settles, the code after the await runs.              *)
SettingsResume(i, out) ==
  /\ calls[i].pc # "done"
  /\ calls[i].owner \in {"load", "stale", "refresh", "persist", "stray"}
  /\ out \in Outcomes(calls[i].pc)
  /\ out \in ErrorTags => out = fault
  /\ LET r == Resume(calls[i], World, out)
         m1 == IF r.c.pc # "done" THEN Manager
               ELSE IF r.c.owner \in {"load", "stale"}
                 THEN LoadSettled(Manager, r.c, r.c.owner = "load")
               ELSE IF r.c.owner = "refresh" THEN RefreshSettled(Manager, r.c)
               ELSE PersistSettled(Manager, r.c)
     IN /\ calls' = Settle(calls, i, r.c)
        /\ SetWorld(r.w)
        /\ SetManager(m1)
        /\ SetUi(UiSettingsEffect(settings, m1.settings, Ui))
  /\ lastSetScale' = None
  /\ UNCHANGED <<fault, subject, authVars, activeLoad, nSetScale, nRefresh, sinceCall,
                 burst>>

(* The provider tree is unmounted: the cleanups of the effects run.  The    *)
(* auth layer stops listening; the load in flight becomes stale and the    *)
(* timer in debounceTimerRef is cleared.                                   *)
Unmount ==
  /\ OpsLeft
  /\ listening' = FALSE
  /\ calls' = Stale(calls)
  /\ timers' = ClearTimer(timers, debounceTimerRef)
  /\ lastSetScale' = None
  /\ UNCHANGED <<unavailableReason, users, userSettings, fault, subject, user, loading,
                 profile, profileUnsub, subs, events, settings, updating, pendingScaleRef,
                 debounceTimerRef, lastPersistedScaleRef, activeLoad, uiScale, storedScale,
                 domScale, nSetScale, nRefresh, sinceCall, burst>>

(* The profile service, called by the auth layer for the signed-in user,   *)
(* finds the backend not provisioned and latches it unavailable            *)
(* (users.ts, the catch blocks).                                           *)
ProfileStoreUnavailable ==
  /\ OpsLeft
  /\ IsSome(user)
  /\ NotProvisioned(fault)
  /\ isFirestoreAvailable(unavailableReason)
  /\ unavailableReason' =
       EnsureProfileCatch(NoCall("ensureUserProfile", Get(user), UNDEF, 100, "auth", World),
                          World, BackendError(fault)).w.reason
  /\ lastSetScale' = None
  /\ UNCHANGED <<users, userSettings, calls, fault, subject, authVars, settings, updating,
                 pendingScaleRef, debounceTimerRef, lastPersistedScaleRef, timers,
                 activeLoad, uiScale, storedScale, domScale, nSetScale, nRefresh, sinceCall,
                 burst>>

StoredEntries == {Some(String(150)), Some(String(300))}

InitSettings ==
  /\ unavailableReason = None
  /\ users = [id \in Ids |-> None]
  /\ userSettings = [id \in Ids |-> IF id = "u1" THEN Some(ExistingSettings) ELSE None]
  /\ calls = <<>>
  /\ fault = "E_precondition"
  /\ subject = "u1"
  /\ InitAuthVars
  /\ \E entry \in StoredEntries : InitSetVars(entry)

NextSettings ==
  \/ \E u \in {None} \cup {Some(id) : id \in Ids} : SessionChanged(u)
  \/ SessionLoaded
  \/ \E v \in ScaleInputs : UiSetScale(v)
  \/ Tick
  \/ \E t \in timers : TimerFires(t)
  \/ Refresh
  \/ \E i \in 1..Len(calls), out \in ReadOutcomes : SettingsResume(i, out)
  \/ ProfileStoreUnavailable
  \/ Unmount

SpecSettings == InitSettings /\ [][NextSettings]_vars


(* ---- properties of the settings manager --------------------------------- *)

(* C1: for every burst of setScale calls of one known user, each less than *)
(* the debounce window after the previous one, at most one remote settings *)
(* write is issued, and it carries the clamped value of the last call of   *)
(* the burst; no intermediate value is written.                            *)
C1_BurstCoalesced ==
  /\ burst.writes <= 1
  /\ burst.writes = 1 => burst.written = Some(burst.last)

(* A burst of at least two calls whose single write went out. *)
C1_Witness ==
  /\ burst.n >= 2
  /\ burst.writes = 1
  /\ burst.written = Some(burst.last)
  /\ \E id \in Ids : userSettings[id] # None /\ Get(userSettings[id]).scale = Some(burst.last)
                     /\ burst.uid = id /\ burst.last # 150

(* C2: immediately after setScale(v), the scale in the local state of the  *)
(* settings manager and the scale displayed by the UI-scale layer are both *)
(* 0.8 when v < 0.8, 2.0 when v > 2.0, and v otherwise.                    *)
C2_SetScaleClamps ==
  IsSome(lastSetScale) =>
    LET v == Get(lastSetScale)
        cv == IF v < 80 THEN 80 ELSE IF v > 200 THEN 200 ELSE v
    IN /\ ScaleOf(settings) = Some(cv)
       /\ uiScale = cv
       /\ domScale = cv

(* setScale(2.5) has just run: both scales are 2.0. *)
C2_Witness ==
  /\ lastSetScale = Some(250)
  /\ ScaleOf(settings) = Some(200)
  /\ uiScale = 200

(* C16: a debounce timer armed before the latest change of user, or before *)
(* the disposal of the settings manager, is no longer pending, and no      *)
(* remote write was started by such a timer.                               *)
C16_NoStrayTimer ==
  /\ \A t \in timers : listening /\ t.armed = events
  /\ \A i \in CallIds : Call(i).owner # "stray"

(* A requested value was never written and no timer is left to write it:   *)
(* the timer armed for it was cancelled by a change of user or disposal.   *)
C16_Witness ==
  /\ IsSome(pendingScaleRef)
  /\ pendingScaleRef # lastPersistedScaleRef
  /\ burst.writes = 0
  /\ timers = {}
  /\ ~updating
  /\ isFirestoreAvailable(unavailableReason)
  /\ \A i \in CallIds : Call(i).fn # "updateUserSettings"
  /\ ~listening \/ user # Some(burst.uid)

(* C21: when the debounce timer fires, updateUserSettings is called if and *)
(* only if the pending value differs from the last-persisted value, and    *)
(* with the backend available that call sends a write; when the load of    *)
(* the current user returns a record, the last-persisted value is the      *)
(* scale of that record; when a write succeeds, the last-persisted value   *)
(* is the written value.                                                   *)
C21_PersistIffDiffers ==
  [][ /\ \A t \in timers :
           TimerFires(t) =>
             /\ (calls' # calls \/ lastPersistedScaleRef' # lastPersistedScaleRef)
                  <=> pendingScaleRef # lastPersistedScaleRef
             /\ isFirestoreAvailable(unavailableReason) =>
                  ( ( /\ Len(calls') = Len(calls) + 1
                      /\ calls'[Len(calls')].fn = "updateUserSettings"
                      /\ calls'[Len(calls')].pc = "uswrite"
                      /\ calls'[Len(calls')].scale = Get(pendingScaleRef) )
                    <=> pendingScaleRef # lastPersistedScaleRef )
      /\ \A i \in 1..Len(calls) :
           (Len(calls') < Len(calls) /\ SettingsResume(i, "ok")) =>
             /\ calls[i].owner = "load" =>
                  /\ settings' = userSettings'[calls[i].uid]
                  /\ lastPersistedScaleRef' = ScaleOf(settings')
             /\ (calls[i].fn = "updateUserSettings" /\ IsSome(userSettings[calls[i].uid])) =>
                  /\ lastPersistedScaleRef' = Some(calls[i].scale)
                  /\ ScaleOf(userSettings'[calls[i].uid]) = Some(calls[i].scale)
    ]_vars

(* The timer fired with a value that differed, the write went out and      *)
(* succeeded: the value is stored remotely and is the last-persisted one.  *)
C21_Witness ==
  /\ burst.writes = 1
  /\ lastPersistedScaleRef = burst.written
  /\ pendingScaleRef = burst.written
  /\ ScaleOf(userSettings[burst.uid]) = burst.written
  /\ burst.written # Some(150)
  /\ ~updating

NextConverge ==
  \/ \E id \in Ids : events = 0 /\ SessionChanged(Some(id))
  \/ SessionLoaded
  \/ \E v \in ScaleInputs : UiSetScale(v)
  \/ Tick
  \/ \E t \in timers : TimerFires(t)
  \/ Refresh
  \/ \E i \in 1..Len(calls) : SettingsResume(i, "ok")

(* Time passes, every armed timer fires and every backend call completes;  *)
(* setScale and refresh are called as the user pleases.                    *)
SpecConverge ==
  /\ InitSettings
  /\ [][NextConverge]_vars
  /\ WF_vars(Tick)
  /\ WF_vars(\E t \in timers : TimerFires(t))
  /\ WF_vars(\E i \in 1..Len(calls) : SettingsResume(i, "ok"))

(* The remote scale, the local scale of the settings manager and the       *)
(* displayed scale all equal the clamped value of the last setScale call.  *)
Converged ==
  /\ IsSome(user)
  /\ ScaleOf(userSettings[Get(user)]) = Some(burst.last)
  /\ ScaleOf(settings) = Some(burst.last)
  /\ uiScale = burst.last
  /\ domScale = burst.last

(* C26: for a known user with the backend available, once the setScale     *)
(* calls have stopped, every armed timer has fired and every backend call  *)
(* has completed without error, the remote scale, the local scale of the   *)
(* settings manager and the displayed scale are all equal to the clamped   *)
(* value of the last setScale call, under every interleaving with the      *)
(* initial load and refresh().                                             *)
C26_Convergence == <>[](nSetScale > 0 => Converged)

(* C27: the updating flag is true in every state in which a remote write   *)
(* started by a debounce timer is in flight, also when a second write      *)
(* starts before an earlier one has completed; at most one such write is   *)
(* in flight.                                                              *)
C27_UpdatingWhileWriting ==
  LET W == {i \in CallIds : Call(i).fn = "updateUserSettings"}
  IN /\ W # {} => updating
     /\ Cardinality(W) <= 1

(* C29: the last-persisted bookkeeping never causes a needed write to be   *)
(* skipped: whenever a debounce timer fires for the current user while the *)
(* pending scale differs from the scale stored remotely for that user, the *)
(* backend being available, a remote write is issued; also after           *)
(* refresh(), after a user change, and after a write started for a         *)
(* previous user has completed late.                                       *)
C29_NeededWriteIssued ==
  [][ \A t \in timers :
        ( /\ TimerFires(t)
          /\ IsSome(user)
          /\ t.uid = Get(user)
          /\ isFirestoreAvailable(unavailableReason)
          /\ IsSome(pendingScaleRef)
          /\ pendingScaleRef # ScaleOf(userSettings[t.uid]) )
        => /\ Len(calls') = Len(calls) + 1
           /\ calls'[Len(calls')].fn = "updateUserSettings"
           /\ calls'[Len(calls')].uid = t.uid
           /\ calls'[Len(calls')].scale = Get(pendingScaleRef)
    ]_vars

(* ---- the scale range ------------------------------------------------------ *)

(* The scales the remote settings record of u1 may hold at start: one      *)
(* inside [0.8, 2] and one above it (the record is read as it is,          *)
(* userSettings.ts 19).                                                    *)
RemoteScales == {150, 300}

InitRemote ==
  /\ unavailableReason = None
  /\ users = [id \in Ids |-> None]
  /\ \E s \in RemoteScales :
       userSettings = [id \in Ids |-> IF id = "u1"
                                      THEN Some([ExistingSettings EXCEPT !.scale = Some(s)])
                                      ELSE None]
  /\ calls = <<>>
  /\ fault = "E_precondition"
  /\ subject = "u1"
  /\ InitAuthVars
  /\ \E entry \in StoredEntries : InitSetVars(entry)

SpecRemote == InitRemote /\ [][NextSettings]_vars

InRange(v) == MinScale <= v /\ v <= MaxScale

(* C30: in every reachable state the displayed scale lies in [0.8, 2.0],   *)
(* whatever local storage holds at start and whatever the remote settings  *)
(* record holds, and every value written to the local cache lies in        *)
(* [0.8, 2.0]: no out-of-range value is ever applied or cached.            *)
C30_ScaleInRange ==
  [][ /\ InRange(uiScale) /\ InRange(uiScale')
      /\ InRange(domScale) /\ InRange(domScale')
      /\ storedScale' # storedScale =>
           /\ IsSome(storedScale')
           /\ IsSome(parseFloat(Get(storedScale')))
           /\ InRange(Get(parseFloat(Get(storedScale'))))
    ]_vars

(* C15: while the user is unknown, the settings state is null, whatever    *)
(* loads, refresh calls and debounced writes of the previous user are      *)
(* still in flight.                                                        *)
C15_SettingsNullWhileSignedOut == ~IsSome(user) => settings = None


(***************************************************************************)
(* lib/firestoreStatus.ts on its own: sequences of markFirestoreUnavailable *)
(* calls.  `calls` holds the calls made so far.                            *)
(***************************************************************************)

MaxMarks == 4

Reasons == {"", "not been used", "not enabled", "FAILED_PRECONDITION"}

MarkCalled(reason) ==
  /\ Len(calls) < MaxMarks
  /\ calls' = Append(calls, [fn |-> "markFirestoreUnavailable", reason |-> reason])
  /\ unavailableReason' = markFirestoreUnavailable(unavailableReason, reason)
  /\ UNCHANGED <<users, userSettings, fault, subject, authVars, setVars>>

InitStatus ==
  /\ unavailableReason = None
  /\ users = [id \in Ids |-> None]
  /\ userSettings = [id \in Ids |-> None]
  /\ calls = <<>>
  /\ fault = "E_precondition"
  /\ subject = "u1"
  /\ InitAuthVars
  /\ InitSetVars(None)

NextStatus == \E reason \in Reasons : MarkCalled(reason)

SpecStatus == InitStatus /\ [][NextStatus]_vars

(* C17: after any sequence of markFirestoreUnavailable calls,              *)
(* getFirestoreUnavailableReason returns the reason of the first call.     *)
C17_FirstReasonWins ==
  calls # <<>> => getFirestoreUnavailableReason(unavailableReason) = Some(calls[1].reason)


(***************************************************************************)
(* lib/errors.ts on its own: conversions by toAppError.  `calls` holds the *)
(* conversions made so far: the value converted, the fallback, the result, *)
(* and for a conversion of an earlier result the index of that conversion. *)
(***************************************************************************)

MaxConversions == 2

(* Thrown values: backend errors, a thrown string (no code, no message),   *)
(* and errors the services create themselves.                              *)
ThrownValues ==
  {BackendError(tag) : tag \in ErrorTags \cup {"E_notfound"}}
    \cup {[code |-> UNDEF, message |-> UNDEF, userMessage |-> UNDEF, domain |-> UNDEF],
          ProfileNotFound, CreateInconsistent}

(* The fallbacks the services pass. *)
Fallbacks ==
  {[code |-> "FIRESTORE_READ_FAILED", message |-> "Failed to read user profile",
    userMessage |-> "Could not load user profile.", domain |-> "FIRESTORE"],
   [code |-> "FIRESTORE_CREATE_FAILED", message |-> "Failed to create user profile",
    userMessage |-> "Could not initialize your profile.", domain |-> "FIRESTORE"],
   [code |-> "FIRESTORE_READ_FAILED", message |-> "Read failed", userMessage |-> UNDEF,
    domain |-> UNDEF]}

Converted(e, fb) == toAppError(e, fb.code, fb.message, fb.userMessage, fb.domain)

(* toAppError(e, fb) for a thrown value e *)
Convert(e, fb) ==
  /\ Len(calls) < MaxConversions
  /\ calls' = Append(calls, [fn |-> "toAppError", e |-> e, fb |-> fb,
                             result |-> Converted(e, fb), again |-> 0])
  /\ UNCHANGED <<unavailableReason, users, userSettings, fault, subject, authVars, setVars>>

(* toAppError(r, fb) for the result r of conversion i *)
ConvertAgain(i, fb) ==
  /\ Len(calls) < MaxConversions
  /\ calls' = Append(calls, [fn |-> "toAppError", e |-> calls[i].result, fb |-> fb,
                             result |-> Converted(calls[i].result, fb), again |-> i])
  /\ UNCHANGED <<unavailableReason, users, userSettings, fault, subject, authVars, setVars>>

NextErrors ==
  \/ \E e \in ThrownValues, fb \in Fallbacks : Convert(e, fb)
  \/ \E i \in 1..Len(calls), fb \in Fallbacks : ConvertAgain(i, fb)

SpecErrors == InitStatus /\ [][NextErrors]_vars

(* C18: converting the result of a conversion again, with any fallback,    *)
(* gives an error with the same code, message, domain and userMessage.     *)
C18_ToAppErrorIdempotent ==
  \A j \in CallIds :
    Call(j).again # 0 => Call(j).result = Call(Call(j).again).result


(***************************************************************************)
(* Logging: lib/errors.ts log / serializeError, and the console.warn calls *)
(* of the services and providers.  A thrown value is [kind, props]: what   *)
(* it is (null, a string, a plain object, an Error) and the names of its   *)
(* properties.  A log record is [site, raw, fields]: raw when the thrown   *)
(* value itself was written, else the fields of the object written.        *)
(* `calls` holds the log records written so far.                           *)
(***************************************************************************)

MaxLogs == 2

(* A FirebaseError, an Error without code (network failure), an AppError   *)
(* made by createAppError with a cause, a thrown string, a plain object    *)
(* and null.                                                               *)
FirebaseErrorShape ==
  [kind |-> "Error", props |-> {"code", "message", "name", "stack", "customData"}]
PlainErrorShape == [kind |-> "Error", props |-> {"message", "name", "stack"}]
AppErrorShape ==
  [kind |-> "Error", props |-> {"code", "message", "name", "stack", "userMessage",
                                "domain", "cause"}]

ThrownShapes ==
  {FirebaseErrorShape, PlainErrorShape, AppErrorShape,
   [kind |-> "string", props |-> {}],
   [kind |-> "object", props |-> {"status", "body"}],
   [kind |-> "null", props |-> {}]}

(* !!e && typeof e === 'object' && 'code' in e && 'message' in e *)
isAppError(e) == e.kind \in {"object", "Error"} /\ {"code", "message"} \subseteq e.props

(* What serializeError(e) returns: e itself, or a new object. *)
serializeError(e) ==
  IF e.kind = "null" THEN [raw |-> TRUE, fields |-> {}]
  ELSE IF isAppError(e)
    THEN [raw |-> FALSE, fields |-> {"code", "message", "domain", "userMessage"}]
  ELSE IF e.kind = "Error" THEN [raw |-> FALSE, fields |-> {"message", "name"}]
  ELSE [raw |-> TRUE, fields |-> e.props]

(* log({event, level, error}): the error part of the record written; no   *)
(* error part for a falsy error.                                           *)
LogRecord(site, e) ==
  IF e.kind = "null" THEN [site |-> site, raw |-> FALSE, fields |-> {}]
  ELSE [site |-> site, raw |-> serializeError(e).raw, fields |-> serializeError(e).fields]

(* console.warn(label, e) *)
WarnRecord(site, e) == [site |-> site, raw |-> TRUE, fields |-> e.props]

(* log() is called with error e: AuthProvider.tsx 40 and 62, and any other *)
(* caller of the exported function.                                        *)
LogError(site, e) ==
  /\ Len(calls) < MaxLogs
  /\ calls' = Append(calls, LogRecord(site, e))
  /\ UNCHANGED <<unavailableReason, users, userSettings, fault, subject, authVars, setVars>>

(* A catch block that calls console.warn: updateUserProfilePartial and the *)
(* three of SettingsProvider.                                              *)
WarnError(site, e) ==
  /\ Len(calls) < MaxLogs
  /\ calls' = Append(calls, WarnRecord(site, e))
  /\ UNCHANGED <<unavailableReason, users, userSettings, fault, subject, authVars, setVars>>

LogSites == {"auth.ensure_profile_failed", "auth.profile_snapshot_error", "log"}
WarnSites ==
  {"[userProfile] partial update failed", "[settings] load failed",
   "[settings] refresh failed", "[settings] debounced setScale failed"}

(* The values that reach each site: ensureUserProfile throws AppErrors     *)
(* only, onSnapshot reports FirestoreErrors, the backend calls of the      *)
(* catch blocks reject with a FirebaseError or a network Error; log() as   *)
(* an exported function takes any value.                                   *)
SiteValues(site) ==
  CASE site = "auth.ensure_profile_failed" -> {AppErrorShape}
    [] site = "auth.profile_snapshot_error" -> {FirebaseErrorShape}
    [] site = "log" -> ThrownShapes
    [] OTHER -> {FirebaseErrorShape, PlainErrorShape}

NextLog ==
  \/ \E site \in LogSites : \E e \in SiteValues(site) : LogError(site, e)
  \/ \E site \in WarnSites : \E e \in SiteValues(site) : WarnError(site, e)

SpecLog == InitStatus /\ [][NextLog]_vars

(* C19: every error written to the log is an object with the fields code,  *)
(* message, domain and userMessage only, never the thrown value itself.    *)
C19_LogFieldsOnly ==
  \A i \in CallIds :
    /\ ~Call(i).raw
    /\ Call(i).fields \subseteq {"code", "message", "domain", "userMessage"}


(***************************************************************************)
(* The merge of profile snapshots (AuthProvider.tsx 46-58) on its own:     *)
(* snapshots with any of their fields missing arrive for identity u1.      *)
(* `calls` holds, for each snapshot, the profile before it and its data.   *)
(***************************************************************************)

MaxSnapshots == 2

(* The data of a snapshot: a field that is missing is UNDEF (NoTime for    *)
(* createdAt).                                                             *)
SnapshotData ==
  [email : {UNDEF, "new@b.com"}, displayName : {UNDEF, NULL, "Zed"},
   createdAt : {NoTime, ServerTime}]

SnapshotArrives(data) ==
  /\ Len(calls) < MaxSnapshots
  /\ calls' = Append(calls, [fn |-> "onSnapshot", prev |-> profile, data |-> data])
  /\ profile' = Some(SnapshotMerge(profile, Identity("u1"), data))
  /\ UNCHANGED <<unavailableReason, users, userSettings, fault, subject, user, loading,
                 profileUnsub, subs, listening, events, setVars>>

(* u1 is signed in; the profile is null (ensureUserProfile failed) or the  *)
(* stored one.                                                             *)
InitMerge ==
  /\ unavailableReason = None
  /\ users = [id \in Ids |-> IF id = "u1" THEN Some(ExistingProfile) ELSE None]
  /\ userSettings = [id \in Ids |-> None]
  /\ calls = <<>>
  /\ fault = "E_denied"
  /\ subject = "u1"
  /\ user = Some("u1")
  /\ loading = FALSE
  /\ profile \in {None, Some(fromFirestore("u1", ExistingProfile))}
  /\ profileUnsub = Some(1)
  /\ subs = {[id |-> 1, uid |-> "u1"]}
  /\ listening = TRUE
  /\ events = 1
  /\ InitSetVars(None)

NextMerge == \E data \in SnapshotData : SnapshotArrives(data)

SpecMerge == InitMerge /\ [][NextMerge]_vars

(* C23: after a snapshot that lacks email, displayName or createdAt, the   *)
(* profile holds for each missing field the value it held before.          *)
C23_MergeKeepsAbsentFields ==
  (calls # <<>> /\ IsSome(calls[Len(calls)].prev)) =>
    LET prev == Get(calls[Len(calls)].prev)
        data == calls[Len(calls)].data
    IN /\ data.email = UNDEF => Get(profile).email = prev.email
       /\ data.displayName = UNDEF => Get(profile).displayName = prev.displayName
       /\ data.createdAt = NoTime => Get(profile).createdAt = prev.createdAt

====
